---- MODULE Spec2Model ----
(***************************************************************************)
(* A model of the health-tracking API of src/main.py: the in-memory user   *)
(* list, the health-metrics mapping, the appointments list, and the six    *)
(* request handlers that read or write them (GET / and GET /doctors return *)
(* constants and are left out).                                            *)
(*                                                                         *)
(* Every handler is an `async def` coroutine whose body holds no `await`:  *)
(* on the server's event loop a handler body runs from its first line to   *)
(* its return without another handler running in between.  Spec therefore  *)
(* takes one step per request.  SpecReg splits register_user into its      *)
(* three source lines and models the event loop explicitly, with several   *)
(* registration requests in flight.                                        *)
(***************************************************************************)
EXTENDS Integers, Sequences, FiniteSets, TLC

\* ---------------------------------------------------------------- bounds
MaxUsers == 2
MaxAppointments == 1
MaxTime == 1
MaxInflight == 2

\* ------------------------------------------------------ values and inputs
Usernames == {"alice", "bob"}
Passwords == {"pw123", "pw456"}
\* bcrypt.gensalt() draws a fresh random salt at every call
Salts == {"salt1", "salt2"}

\* Python's None where a string is optional
None == "None"

\* JWT_SECRET (line 30); OtherSecret is any key that is not the server's
JWT_SECRET == "default_secret"
OtherSecret == "other_secret"

\* A JWT as the three parts of the compact form: the header's algorithm, the
\* payload (claims), and the HMAC over them, which only the key's holder can
\* produce.  wellformed = FALSE is a string that does not parse as a JWT.
jwt_encode(data, key) ==
    [wellformed |-> TRUE, alg |-> "HS256", payload |-> data,
     sig |-> [key |-> key, payload |-> data]]

Malformed ==
    [wellformed |-> FALSE, alg |-> "HS256", payload |-> [sub |-> None],
     sig |-> [key |-> OtherSecret, payload |-> [sub |-> None]]]

\* jwt.decode(token, JWT_SECRET, algorithms=["HS256"]): the payload, or
\* PyJWTError (ok = FALSE) when the token does not parse or its signature is
\* not the one JWT_SECRET gives for its payload.  No expiry is checked: the
\* tokens carry no exp claim.
jwt_decode(token, key) ==
    IF token.wellformed /\ token.alg = "HS256"
       /\ token.sig = [key |-> key, payload |-> token.payload]
    THEN [ok |-> TRUE, payload |-> token.payload]
    ELSE [ok |-> FALSE, payload |-> [sub |-> None]]

create_access_token(data) == jwt_encode(data, JWT_SECRET)

\* bcrypt.hashpw(password, salt): the salt is kept in the hash beside the
\* digest of (salt, password)
hash_password(password, salt) ==
    [salt |-> salt, digest |-> <<salt, password>>]

\* bcrypt.checkpw: recomputes the digest with the salt the hash embeds
verify_password(plain_password, hashed_password) ==
    <<hashed_password.salt, plain_password>> = hashed_password.digest

\* The bearer tokens a client can present: tokens the server signs for a
\* username (issued by login, in this or an earlier run of the process, or
\* made with the published default secret), a token signed with another key,
\* and a string that is no JWT.
SubjectNames == Usernames \cup {"mallory"}
TokenInputs ==
    {create_access_token([sub |-> u]) : u \in SubjectNames}
    \cup {jwt_encode([sub |-> "alice"], OtherSecret), Malformed}

\* HealthMetrics (lines 60-64); sex is optional
HealthInputs ==
    {[sleep |-> 7, exercise |-> 30, waterIntake |-> 2000, sex |-> None],
     [sleep |-> 8, exercise |-> 45, waterIntake |-> 1500, sex |-> "f"]}

\* The default of health_metrics.get (line 96)
DefaultMetrics == [sleep |-> 0, exercise |-> 0, waterIntake |-> 0, sex |-> "f/m"]

\* doctors (lines 120-124)
doctors ==
    << [id |-> 1, name |-> "Dr. Alice Smith", specialty |-> "Cardiology"],
       [id |-> 2, name |-> "Dr. Bob Johnson", specialty |-> "Pediatrics"],
       [id |-> 3, name |-> "Dr. Carol Williams", specialty |-> "Mental Health"] >>

\* SYMPTOM_CONDITIONS (lines 175-182)
SymptomNames == {"fever", "cough", "headache", "sore throat", "fatigue", "stomach pain"}
SYMPTOM_CONDITIONS ==
    [s \in SymptomNames |->
       CASE s = "fever" -> {"Flu", "COVID-19", "Infection"}
         [] s = "cough" -> {"Flu", "COVID-19", "Cold"}
         [] s = "headache" -> {"Migraine", "Tension headache", "Sinusitis"}
         [] s = "sore throat" -> {"Cold", "Flu", "Strep throat"}
         [] s = "fatigue" -> {"Anemia", "Depression", "Chronic fatigue syndrome"}
         [] OTHER -> {"bug, food posioning"}]

SymptomInputs == { <<"fever", "cough">>, <<"unknown_symptom">>, <<"fatigue">> }

\* A datetime: t is the instant; tzinfo = TRUE is an offset-aware value (the
\* request gave a UTC offset or "Z"), FALSE a naive one.  datetime.now() is
\* naive.
\* The instants are one the clock starts at, the last it reaches and one it
\* never reaches.
DateInputs ==
    [t : {0, MaxTime, MaxTime + 1}, tzinfo : {FALSE}]
    \cup [t : {0, MaxTime + 1}, tzinfo : {TRUE}]

\* Appointment (lines 127-131)
AppointmentInputs ==
    [patient_id : {1, 2}, doctor_id : {1, 4}, date : DateInputs, reason : {"checkup"}]

\* ------------------------------------------------------------------ state
VARIABLES
    users,          \* line 36: the list of user records
    health_metrics, \* line 37: user id -> metrics
    appointments,   \* line 125: the list of appointments
    now,            \* the wall clock datetime.now() reads
    req,            \* the request the server answered last
    resp,           \* its response
    inflight,       \* SpecReg: the registration requests accepted and not yet answered
    running,        \* SpecReg: the slot whose handler body the event loop is executing, 0 when idle
    overlaps,       \* SpecReg: pairs of users-list positions whose requests were in flight together
    last_update,    \* history: token subject -> the payload of its last successful dashboard update
    issued          \* history: token issued by login -> the user record it was issued for

vars == <<users, health_metrics, appointments, now, req, resp, inflight, running, overlaps,
          last_update, issued>>

NoBody == [none |-> TRUE]
NoReq == [op |-> "none"]
NoResp == [status |-> 0, detail |-> "", body |-> NoBody]

Ok(body) == [status |-> 200, detail |-> "", body |-> body]
HTTPException(status_code, detail) == [status |-> status_code, detail |-> detail, body |-> NoBody]

\* A scan that keeps the last match instead of stopping at the first
next_user_last(us, username) ==
    IF \E i \in 1..Len(us) : us[i].username = username
    THEN CHOOSE i \in 1..Len(us) :
            /\ us[i].username = username
            /\ \A j \in (i + 1)..Len(us) : us[j].username # username
    ELSE 0

\* next((user for user in users if user["username"] == username), None):
\* the position of the first match, 0 for None
next_user(us, username) ==
    IF \E i \in 1..Len(us) : us[i].username = username
    THEN CHOOSE i \in 1..Len(us) :
            /\ us[i].username = username
            /\ \A j \in 1..(i - 1) : us[j].username # username
    ELSE 0

\* next((doc for doc in doctors if doc["id"] == doctor_id), None)
next_doctor(doctor_id) ==
    IF \E i \in 1..Len(doctors) : doctors[i].id = doctor_id
    THEN CHOOSE i \in 1..Len(doctors) :
            /\ doctors[i].id = doctor_id
            /\ \A j \in 1..(i - 1) : doctors[j].id # doctor_id
    ELSE 0

Idle == [pc |-> "idle", user |-> [username |-> None, password |-> None, role |-> None],
         user_id |-> 0, hashed_password |-> hash_password(None, None), seen |-> {}]

Init ==
    /\ users = << >>
    /\ health_metrics = << >>
    /\ appointments = << >>
    /\ now = 0
    /\ req = NoReq
    /\ resp = NoResp
    /\ inflight = [s \in 1..MaxInflight |-> Idle]
    /\ running = 0
    /\ overlaps = {}
    /\ last_update = << >>
    /\ issued = << >>

\* ------------------------------------------------------------- handlers
\* The record of line 71 and the public view of line 73
new_user(user_id, user, hashed_password) ==
    [id |-> user_id, username |-> user.username, role |-> user.role,
     password |-> hashed_password]

public_view(u) == [id |-> u.id, username |-> u.username, role |-> u.role]

\* register_user with the id taken as len(users), without the + 1
register_user_zero_based(user, salt) ==
    /\ Len(users) < MaxUsers
    /\ LET user_id == Len(users)
           hashed_password == hash_password(user.password, salt)
           nu == new_user(user_id, user, hashed_password)
       IN /\ users' = Append(users, nu)
          /\ resp' = Ok(public_view(nu))
    /\ req' = [op |-> "register", user |-> user]
    /\ UNCHANGED <<health_metrics, appointments, now, inflight, running, overlaps, last_update,
                   issued>>

\* POST /register (lines 67-73).  No uniqueness check: the record is appended
\* whatever the list holds.
register_user(user, salt) ==
    /\ Len(users) < MaxUsers
    /\ LET user_id == Len(users) + 1
           hashed_password == hash_password(user.password, salt)
           nu == new_user(user_id, user, hashed_password)
       IN /\ users' = Append(users, nu)
          /\ resp' = Ok(public_view(nu))
    /\ req' = [op |-> "register", user |-> user]
    /\ UNCHANGED <<health_metrics, appointments, now, inflight, running, overlaps, last_update, issued>>

\* login without the password check of line 78
login_response_no_password(us, form_data) ==
    LET i == next_user(us, form_data.username)
    IN IF i = 0
       THEN HTTPException(401, "Incorrect username or password")
       ELSE Ok([access_token |-> create_access_token([sub |-> us[i].username]),
                token_type |-> "bearer"])

\* The response of POST /token (lines 77-85): the scan stops at the first
\* user with the username, and only that user's hash is tried
login_response(us, form_data) ==
    LET i == next_user(us, form_data.username)
    IN IF i = 0 \/ ~verify_password(form_data.password, us[i].password)
       THEN HTTPException(401, "Incorrect username or password")
       ELSE Ok([access_token |-> create_access_token([sub |-> us[i].username]),
                token_type |-> "bearer"])

\* POST /token (lines 75-85)
login_for_access_token(form_data) ==
    /\ resp' = login_response(users, form_data)
    /\ req' = [op |-> "login", form_data |-> form_data]
    /\ issued' = IF resp'.status = 200 /\ resp'.body.access_token \notin DOMAIN issued
                 THEN [t \in (DOMAIN issued) \cup {resp'.body.access_token} |->
                         IF t \in DOMAIN issued THEN issued[t]
                         ELSE users[next_user(users, form_data.username)]]
                 ELSE issued
    /\ UNCHANGED <<users, health_metrics, appointments, now, inflight, running, overlaps,
                   last_update>>

\* health_metrics.get(user_id, default) (line 96)
metrics_get(hm, user_id) ==
    IF user_id \in DOMAIN hm THEN hm[user_id] ELSE DefaultMetrics

\* GET /dashboard (lines 88-99)
get_dashboard(token) ==
    /\ LET decoded == jwt_decode(token, JWT_SECRET)
           i == next_user(users, decoded.payload.sub)
       IN IF ~decoded.ok
          THEN resp' = HTTPException(403, "Could not validate credentials")
          ELSE IF i = 0
          THEN resp' = HTTPException(404, "User not found")
          ELSE resp' = Ok(metrics_get(health_metrics, users[i].id))
    /\ req' = [op |-> "get_dashboard", token |-> token]
    /\ UNCHANGED <<users, health_metrics, appointments, now, inflight, running, overlaps, last_update, issued>>

\* An update that rebinds the mapping to the one entry written
metrics_put_replace(hm, user_id, data) ==
    [k \in {user_id} |-> data]

\* health_metrics[user_id] = data (line 109)
metrics_put(hm, user_id, data) ==
    [k \in (DOMAIN hm) \cup {user_id} |-> IF k = user_id THEN data ELSE hm[k]]

\* POST /dashboard/update (lines 101-112)
update_dashboard(health_data, token) ==
    /\ LET decoded == jwt_decode(token, JWT_SECRET)
           i == next_user(users, decoded.payload.sub)
       IN IF ~decoded.ok
          THEN /\ resp' = HTTPException(403, "Could not validate credentials")
               /\ UNCHANGED <<health_metrics, last_update>>
          ELSE IF i = 0
          THEN /\ resp' = HTTPException(404, "User not found")
               /\ UNCHANGED <<health_metrics, last_update>>
          ELSE /\ health_metrics' = metrics_put(health_metrics, users[i].id, health_data)
               /\ last_update' = [k \in (DOMAIN last_update) \cup {decoded.payload.sub} |->
                                     IF k = decoded.payload.sub THEN health_data
                                     ELSE last_update[k]]
               /\ resp' = Ok(health_data)
    /\ req' = [op |-> "update_dashboard", token |-> token, health_data |-> health_data]
    /\ UNCHANGED <<users, appointments, now, inflight, running, overlaps, issued>>

\* An appointment stored under the patient_id of the request body
new_appointment_from_body(user, appointment, doctor) ==
    [patient_id |-> appointment.patient_id, doctor_id |-> appointment.doctor_id,
     date |-> appointment.date, reason |-> appointment.reason,
     doctor_name |-> doctor.name, specialty |-> doctor.specialty]

\* The dict of lines 158-165
new_appointment(user, appointment, doctor) ==
    [patient_id |-> user.id, doctor_id |-> appointment.doctor_id,
     date |-> appointment.date, reason |-> appointment.reason,
     doctor_name |-> doctor.name, specialty |-> doctor.specialty]

\* appointment.date <= datetime.now() (line 154): "le" when it is true, "gt"
\* when it is false, and "TypeError" for an offset-aware date, which Python
\* refuses to order against the naive datetime.now()
date_le_now(date, clock) ==
    IF date.tzinfo THEN "TypeError"
    ELSE IF date.t <= clock THEN "le" ELSE "gt"

\* create_appointment with the append moved above the date check
create_appointment_append_first(appointment, token) ==
    /\ LET decoded == jwt_decode(token, JWT_SECRET)
           i == next_user(users, decoded.payload.sub)
           d == next_doctor(appointment.doctor_id)
           cmp == date_le_now(appointment.date, now)
       IN IF ~decoded.ok
          THEN /\ resp' = HTTPException(403, "Could not validate credentials")
               /\ UNCHANGED appointments
          ELSE IF i = 0
          THEN /\ resp' = HTTPException(404, "User not found")
               /\ UNCHANGED appointments
          ELSE IF d = 0
          THEN /\ resp' = HTTPException(404, "Doctor not found")
               /\ UNCHANGED appointments
          ELSE /\ Len(appointments) < MaxAppointments
               /\ LET na == new_appointment(users[i], appointment, doctors[d])
                  IN /\ appointments' = Append(appointments, na)
                     /\ resp' = IF cmp = "TypeError"
                                THEN HTTPException(500, "Internal Server Error")
                                ELSE IF cmp = "le"
                                THEN HTTPException(400, "Appointment date must be in the future.")
                                ELSE Ok([message |-> "Appointment scheduled successfully",
                                         appointment |-> na])
    /\ req' = [op |-> "create_appointment", token |-> token, appointment |-> appointment]
    /\ UNCHANGED <<users, health_metrics, now, inflight, running, overlaps, last_update, issued>>

\* POST /appointments (lines 139-169).  The TypeError of line 154 is not a
\* PyJWTError nor an HTTPException: the server answers 500.
create_appointment(appointment, token) ==
    /\ LET decoded == jwt_decode(token, JWT_SECRET)
           i == next_user(users, decoded.payload.sub)
           d == next_doctor(appointment.doctor_id)
           cmp == date_le_now(appointment.date, now)
       IN IF ~decoded.ok
          THEN /\ resp' = HTTPException(403, "Could not validate credentials")
               /\ UNCHANGED appointments
          ELSE IF i = 0
          THEN /\ resp' = HTTPException(404, "User not found")
               /\ UNCHANGED appointments
          ELSE IF d = 0
          THEN /\ resp' = HTTPException(404, "Doctor not found")
               /\ UNCHANGED appointments
          ELSE IF cmp = "TypeError"
          THEN /\ resp' = HTTPException(500, "Internal Server Error")
               /\ UNCHANGED appointments
          ELSE IF cmp = "le"
          THEN /\ resp' = HTTPException(400, "Appointment date must be in the future.")
               /\ UNCHANGED appointments
          ELSE /\ Len(appointments) < MaxAppointments
               /\ LET na == new_appointment(users[i], appointment, doctors[d])
                  IN /\ appointments' = Append(appointments, na)
                     /\ resp' = Ok([message |-> "Appointment scheduled successfully",
                                    appointment |-> na])
    /\ req' = [op |-> "create_appointment", token |-> token, appointment |-> appointment]
    /\ UNCHANGED <<users, health_metrics, now, inflight, running, overlaps, last_update, issued>>

\* The loop of lines 193-196
matched_conditions(symptoms) ==
    UNION { IF symptoms[k] \in DOMAIN SYMPTOM_CONDITIONS
            THEN SYMPTOM_CONDITIONS[symptoms[k]] ELSE {} : k \in 1..Len(symptoms) }

\* check_symptoms with the user lookup made before the token is verified
check_symptoms_lookup_first(symptom_check, token) ==
    /\ LET decoded == jwt_decode(token, JWT_SECRET)
           i == next_user(users, token.payload.sub)
           matched == matched_conditions(symptom_check)
       IN IF i = 0
          THEN resp' = HTTPException(404, "User  not found")
          ELSE IF ~decoded.ok
          THEN resp' = HTTPException(403, "Could not validate credentials")
          ELSE IF matched = {}
          THEN resp' = Ok([message |-> "No matching conditions found for the provided symptoms."])
          ELSE resp' = Ok([matched_conditions |-> matched])
    /\ req' = [op |-> "check_symptoms", token |-> token, symptoms |-> symptom_check]
    /\ UNCHANGED <<users, health_metrics, appointments, now, inflight, running, overlaps,
                   last_update, issued>>

\* POST /symptom-checker (lines 184-204)
check_symptoms(symptom_check, token) ==
    /\ LET decoded == jwt_decode(token, JWT_SECRET)
           i == next_user(users, decoded.payload.sub)
           matched == matched_conditions(symptom_check)
       IN IF ~decoded.ok
          THEN resp' = HTTPException(403, "Could not validate credentials")
          ELSE IF i = 0
          THEN resp' = HTTPException(404, "User  not found")
          ELSE IF matched = {}
          THEN resp' = Ok([message |-> "No matching conditions found for the provided symptoms."])
          ELSE resp' = Ok([matched_conditions |-> matched])
    /\ req' = [op |-> "check_symptoms", token |-> token, symptoms |-> symptom_check]
    /\ UNCHANGED <<users, health_metrics, appointments, now, inflight, running, overlaps, last_update, issued>>

\* Time passes between requests: datetime.now() grows.  No request is being
\* answered, so req and resp are cleared.
tick ==
    /\ now < MaxTime
    /\ now' = now + 1
    /\ req' = NoReq
    /\ resp' = NoResp
    /\ UNCHANGED <<users, health_metrics, appointments, inflight, running, overlaps, last_update, issued>>

\* ------------------------------------------------------- specifications
ValidTokens == {create_access_token([sub |-> u]) : u \in Usernames}

\* One appointment body and one metrics payload, for the specifications
\* whose subject is another part of the program
OneAppointment ==
    [patient_id |-> 1, doctor_id |-> 1, date |-> [t |-> MaxTime + 1, tzinfo |-> FALSE],
     reason |-> None]
OneMetrics == [sleep |-> 7, exercise |-> 30, waterIntake |-> 2000, sex |-> None]
OneSymptomCheck == <<"fever", "cough">>

\* The two users of the spec's scenario
TwoUsers ==
    {[username |-> "alice", password |-> "pw123", role |-> "patient"],
     [username |-> "bob", password |-> "pw456", role |-> "doctor"]}

\* The same, and a second registration under each username with another
\* password and another role
RegisterInputs ==
    TwoUsers \cup {[username |-> "alice", password |-> "pw456", role |-> "doctor"],
                   [username |-> "bob", password |-> "pw123", role |-> "patient"]}

\* Spec: users, login and the token check, under registrations that repeat a
\* username and under every kind of token
Next ==
    \/ \E user \in RegisterInputs : register_user(user, "salt1")
    \/ \E u \in Usernames, p \in Passwords :
          login_for_access_token([username |-> u, password |-> p])
    \/ \E token \in TokenInputs : get_dashboard(token)
    \/ \E token \in TokenInputs : update_dashboard(OneMetrics, token)
    \/ \E token \in TokenInputs : create_appointment(OneAppointment, token)
    \/ \E token \in TokenInputs : check_symptoms(OneSymptomCheck, token)

Spec == Init /\ [][Next]_vars

\* SpecDash: the dashboard of two users, under every metrics payload
NextDash ==
    \/ \E user \in TwoUsers, salt \in Salts : register_user(user, salt)
    \/ \E user \in TwoUsers :
          login_for_access_token([username |-> user.username, password |-> user.password])
    \/ \E token \in ValidTokens \cup {Malformed} : get_dashboard(token)
    \/ \E token \in ValidTokens \cup {Malformed}, h \in HealthInputs : update_dashboard(h, token)
    \/ \E token \in ValidTokens : create_appointment(OneAppointment, token)
    \/ \E token \in ValidTokens, sc \in SymptomInputs : check_symptoms(sc, token)

SpecDash == Init /\ [][NextDash]_vars

\* SpecAppt: appointments and the clock, under every appointment body
ApptTokens ==
    {create_access_token([sub |-> "alice"]), create_access_token([sub |-> "mallory"]),
     Malformed}

NextAppt ==
    \/ \E user \in TwoUsers : register_user(user, "salt1")
    \/ \E p \in Passwords :
          login_for_access_token([username |-> "alice", password |-> p])
    \/ \E token \in ApptTokens : get_dashboard(token)
    \/ \E token \in ApptTokens : update_dashboard(OneMetrics, token)
    \/ \E token \in ApptTokens, a \in AppointmentInputs : create_appointment(a, token)
    \/ \E token \in ApptTokens : check_symptoms(OneSymptomCheck, token)
    \/ tick

SpecAppt == Init /\ [][NextAppt]_vars

\* ------------------------------------------- registration, line by line
\* register_user as the event loop runs it.  A request is accepted into a
\* free slot (its body is read and parsed while others are served), then the
\* loop runs the handler body: line 69, line 70, lines 71-73.  The body holds
\* no await, so the coroutine keeps the loop from its first line to its
\* return: a step of slot s needs the loop free or already running s.
Slots == 1..MaxInflight

InFlight == {s \in Slots : inflight[s].pc # "idle"}

receive_register(s, user) ==
    /\ inflight[s].pc = "idle"
    /\ Len(users) + Cardinality(InFlight) < MaxUsers
    /\ inflight' = [inflight EXCEPT ![s] = [Idle EXCEPT !.pc = "received", !.user = user]]
    /\ UNCHANGED <<users, health_metrics, appointments, now, req, resp, running, overlaps,
                   last_update, issued>>

\* The read of line 69 followed by an await: the coroutine gives the loop back
reg_read_count_yields(s) ==
    /\ inflight[s].pc = "received"
    /\ running \in {0, s}
    /\ inflight' = [inflight EXCEPT ![s].pc = "read", ![s].user_id = Len(users) + 1]
    /\ running' = 0
    /\ UNCHANGED <<users, health_metrics, appointments, now, req, resp, overlaps, last_update,
                   issued>>

\* user_id = len(users) + 1 (line 69)
reg_read_count(s) ==
    /\ inflight[s].pc = "received"
    /\ running \in {0, s}
    /\ inflight' = [inflight EXCEPT ![s].pc = "read", ![s].user_id = Len(users) + 1]
    /\ running' = s
    /\ UNCHANGED <<users, health_metrics, appointments, now, req, resp, overlaps, last_update, issued>>

\* hashed_password = hash_password(user.password) (line 70)
reg_hash(s, salt) ==
    /\ inflight[s].pc = "read"
    /\ running \in {0, s}
    /\ inflight' = [inflight EXCEPT ![s].pc = "hashed",
                      ![s].hashed_password = hash_password(inflight[s].user.password, salt)]
    /\ running' = s
    /\ UNCHANGED <<users, health_metrics, appointments, now, req, resp, overlaps, last_update, issued>>

\* new_user = {...}; users.append(new_user); return (lines 71-73).  The
\* history variables note which stored users' requests were in flight
\* together.
reg_append(s) ==
    /\ inflight[s].pc = "hashed"
    /\ running \in {0, s}
    /\ LET nu == new_user(inflight[s].user_id, inflight[s].user, inflight[s].hashed_password)
           pos == Len(users) + 1
       IN /\ users' = Append(users, nu)
          /\ resp' = Ok(public_view(nu))
          /\ req' = [op |-> "register", user |-> inflight[s].user]
          /\ inflight' = [t \in Slots |->
                            IF t = s THEN Idle
                            ELSE IF inflight[t].pc # "idle"
                            THEN [inflight[t] EXCEPT !.seen = @ \cup {pos}]
                            ELSE inflight[t]]
          /\ overlaps' = overlaps \cup {{j, pos} : j \in inflight[s].seen}
    /\ running' = 0
    /\ UNCHANGED <<health_metrics, appointments, now, last_update, issued>>

NextReg ==
    \/ \E s \in Slots, user \in TwoUsers : receive_register(s, user)
    \/ \E s \in Slots : reg_read_count(s)
    \/ \E s \in Slots, salt \in Salts : reg_hash(s, salt)
    \/ \E s \in Slots : reg_append(s)

SpecReg == Init /\ [][NextReg]_vars

\* --------------------------------------------------------------- claims
ProtectedOps == {"get_dashboard", "update_dashboard", "create_appointment", "check_symptoms"}

\* What the claims say of a token, stated without the handlers' operators:
\* the server's key signed this payload
Signed(token) ==
    /\ token.wellformed
    /\ token.alg = "HS256"
    /\ token.sig.key = JWT_SECRET
    /\ token.sig.payload = token.payload

\* The stored users that carry a username, and the one a scan reaches first
Named(username) == {i \in 1..Len(users) : users[i].username = username}
FirstNamed(username) == {i \in Named(username) : \A j \in Named(username) : i <= j}

UserNotFound(r) == r.status = 404 /\ r.detail \in {"User not found", "User  not found"}
GateRejects(r) == r.status = 403 \/ UserNotFound(r)

\* C1: after register(u, p, r), login(u, p) succeeds and the token it returns
\* resolves at the gate to a user record with username u and role r.  Stated
\* of every stored record and of every password its hash verifies.
C1_RegisterLoginRoundTrip ==
    \A i \in 1..Len(users), p \in Passwords :
       verify_password(p, users[i].password) =>
          LET r == login_response(users, [username |-> users[i].username, password |-> p])
          IN /\ r.status = 200
             /\ Signed(r.body.access_token)
             /\ \E k \in FirstNamed(r.body.access_token.payload.sub) :
                   /\ users[k].username = users[i].username
                   /\ users[k].role = users[i].role

\* C2: login issues a token exactly when a user with the username is stored
\* and the password verifies against the hash of the user the scan finds (the
\* first with that username); the token's sub is then that username; in every
\* other case the answer is 401 and carries no token.
C2_LoginIssuesOnlyOnVerifiedPassword ==
    req.op = "login" =>
       LET u == req.form_data.username
           p == req.form_data.password
       IN IF \E i \in FirstNamed(u) : verify_password(p, users[i].password)
          THEN /\ resp.status = 200
               /\ resp.body.token_type = "bearer"
               /\ Signed(resp.body.access_token)
               /\ resp.body.access_token.payload = [sub |-> u]
          ELSE /\ resp.status = 401
               /\ resp.detail = "Incorrect username or password"
               /\ resp.body = NoBody

\* C2's case: a login succeeded although a second user with the same
\* username is stored
C2_Witness ==
    /\ req.op = "login"
    /\ resp.status = 200
    /\ Cardinality(Named(req.form_data.username)) = 2

\* C3: at each of the four protected endpoints, a token that fails
\* verification gets 403 "Could not validate credentials", whether or not its
\* sub names a stored user; a verified token whose sub names no stored user
\* gets 404; otherwise the handler runs as the first stored user with that
\* username.
C3_GateSameAtEveryEndpoint ==
    req.op \in ProtectedOps =>
       IF ~Signed(req.token)
       THEN resp = HTTPException(403, "Could not validate credentials")
       ELSE IF Named(req.token.payload.sub) = {}
       THEN UserNotFound(resp)
       ELSE /\ ~GateRejects(resp)
            /\ \E i \in FirstNamed(req.token.payload.sub) :
                  /\ req.op = "get_dashboard" =>
                        resp = Ok(metrics_get(health_metrics, users[i].id))
                  /\ req.op = "update_dashboard" =>
                        /\ resp = Ok(req.health_data)
                        /\ health_metrics[users[i].id] = req.health_data
                  /\ (req.op = "create_appointment" /\ resp.status = 200) =>
                        resp.body.appointment.patient_id = users[i].id
                  /\ req.op = "check_symptoms" => resp.status = 200

\* C3's case: the symptom checker answered 403 to a token signed with another
\* key whose sub names a stored user
C3_Witness ==
    /\ req.op = "check_symptoms"
    /\ resp.status = 403
    /\ ~Signed(req.token)
    /\ Named(req.token.payload.sub) # {}

\* C4: a request that ends in an error leaves the user list, the metrics
\* mapping and the appointments list as they were.
C4_ErrorsLeaveStateUnchanged ==
    [][resp'.status >= 400 =>
          /\ users' = users
          /\ health_metrics' = health_metrics
          /\ appointments' = appointments]_vars

\* C4's case: an appointment request was refused for its date while users,
\* metrics and an appointment are stored
C4_Witness ==
    /\ req.op = "create_appointment"
    /\ resp.status = 400
    /\ Len(users) > 0
    /\ DOMAIN health_metrics # {}
    /\ Len(appointments) > 0

\* C5: GET /dashboard by an authenticated user returns the default metrics if
\* no update was made under that user's token, and otherwise the payload of
\* the last successful update made under it, whatever the other users did.
C5_DashboardReturnsOwnLastUpdate ==
    (req.op = "get_dashboard" /\ Signed(req.token) /\ Named(req.token.payload.sub) # {}) =>
       LET sub == req.token.payload.sub
       IN /\ resp.status = 200
          /\ resp.body = IF sub \in DOMAIN last_update THEN last_update[sub]
                         ELSE [sleep |-> 0, exercise |-> 0, waterIntake |-> 0, sex |-> "f/m"]

\* C5's case: a user read back their own payload after another user had
\* stored a different one
C5_Witness ==
    /\ req.op = "get_dashboard"
    /\ resp.status = 200
    /\ DOMAIN last_update = {"alice", "bob"}
    /\ last_update["alice"] # last_update["bob"]
    /\ resp.body = last_update[req.token.payload.sub]

\* C6: POST /appointments by an authenticated user with a date at or before
\* the current time fails with a 4xx and appends nothing; with a later date
\* and an existing doctor_id it succeeds and appends exactly one appointment
\* with that doctor's name and specialty.
C6_AppointmentDateRule ==
    [][(/\ req'.op = "create_appointment"
        /\ Signed(req'.token)
        /\ Named(req'.token.payload.sub) # {}) =>
          LET a == req'.appointment
              docs == {k \in 1..Len(doctors) : doctors[k].id = a.doctor_id}
          IN /\ a.date.t <= now =>
                  /\ resp'.status \in 400..499
                  /\ appointments' = appointments
             /\ (a.date.t > now /\ docs # {}) =>
                  /\ resp'.status = 200
                  /\ Len(appointments') = Len(appointments) + 1
                  /\ SubSeq(appointments', 1, Len(appointments)) = appointments
                  /\ \E k \in docs :
                        /\ appointments'[Len(appointments')].doctor_name = doctors[k].name
                        /\ appointments'[Len(appointments')].specialty = doctors[k].specialty]_vars

\* C7: the n-th registration returns id n and is stored n-th with id n, so the
\* stored ids are 1..N in list order; a registration never fails, whether or
\* not the username is taken.
C7_SequentialIds ==
    /\ \A i \in 1..Len(users) : users[i].id = i
    /\ req.op = "register" =>
          /\ resp = Ok([id |-> Len(users), username |-> req.user.username,
                        role |-> req.user.role])
          /\ users[Len(users)].username = req.user.username
          /\ users[Len(users)].role = req.user.role
          /\ verify_password(req.user.password, users[Len(users)].password)

\* C7's case: the second registration took a username already stored and got
\* id 2
C7_Witness ==
    /\ req.op = "register"
    /\ resp.status = 200
    /\ resp.body.id = 2
    /\ users[1].username = users[2].username

\* C8: a token login has issued passes the gate in every later state and
\* resolves to the user record it was issued for; presented at a protected
\* endpoint it is never answered 403 or user-not-found 404.
C8_IssuedTokensStayValid ==
    /\ \A t \in DOMAIN issued :
          /\ Signed(t)
          /\ \E i \in FirstNamed(t.payload.sub) : users[i] = issued[t]
    /\ (req.op \in ProtectedOps /\ req.token \in DOMAIN issued) => ~GateRejects(resp)

\* C8's case: an issued token was accepted at a protected endpoint after a
\* second user had registered under the token's username
C8_Witness ==
    /\ req.op \in ProtectedOps
    /\ req.token \in DOMAIN issued
    /\ resp.status = 200
    /\ Cardinality(Named(req.token.payload.sub)) = 2

\* C9 as stated: two registrations in flight can interleave their steps.  The
\* interleaving that gives both the same id needs the second request to read
\* the user count while the first is between its read and its append.
C9_SecondReadInterleaves ==
    \A a \in Slots, b \in Slots :
       (a # b /\ inflight[a].pc \in {"read", "hashed"} /\ inflight[b].pc = "received")
          => ENABLED reg_read_count(b)

\* C9 amended: registrations that were in flight at the same time are stored
\* with different ids, each its position in the list.
C9_OverlappingRegistrationsGetDistinctIds ==
    \A pr \in overlaps : \A i \in pr, j \in pr :
       i # j => /\ users[i].id # users[j].id
                /\ users[i].id = i

\* C9's case: two users are stored whose requests were in flight together
C9_Witness ==
    /\ overlaps # {}
    /\ Len(users) >= 2

\* C10: a stored appointment's patient_id is the id of the user the token
\* resolved to; the record appended is made of that id and of the body's
\* doctor_id, date and reason, never of the body's patient_id; stored
\* appointments never change.
C10_PatientIdFromToken ==
    [][/\ (req'.op = "create_appointment" /\ resp'.status = 200) =>
             \E i \in FirstNamed(req'.token.payload.sub) :
             \E k \in {d \in 1..Len(doctors) : doctors[d].id = req'.appointment.doctor_id} :
                appointments' = Append(appointments,
                   [patient_id |-> users[i].id,
                    doctor_id |-> req'.appointment.doctor_id,
                    date |-> req'.appointment.date,
                    reason |-> req'.appointment.reason,
                    doctor_name |-> doctors[k].name,
                    specialty |-> doctors[k].specialty])
       /\ Len(appointments') >= Len(appointments)
       /\ SubSeq(appointments', 1, Len(appointments)) = appointments]_vars

\* C10's case: an appointment was stored under the caller's id although the
\* body named another patient
C10_Witness ==
    /\ req.op = "create_appointment"
    /\ resp.status = 200
    /\ appointments[Len(appointments)].patient_id # req.appointment.patient_id

====
